---- MODULE Spec2Model ----
(***************************************************************************)
(* Model of the symptom aggregation and risk-scoring engine of             *)
(* src/api/predict_api.py and src/api/predict_user_input.py.               *)
(*                                                                         *)
(* One behaviour is one call: Init draws the operation and its input, the  *)
(* action of that operation runs the whole handler or function and leaves  *)
(* its locals, its return value and (for a route) the HTTP response in     *)
(* the state.                                                              *)
(*                                                                         *)
(* Numbers.  A symptom value is a rational <<n, d>> (d > 0) in lowest      *)
(* terms, so that count / len(daily_logs) is the quotient itself and two   *)
(* quotients are equal exactly when Python's floats are.  weighted_score   *)
(* is a multiple of 0.5 and is held in halves; probabilities are held in   *)
(* millionths and round(x, 4) rounds them to a multiple of 100 millionths. *)
(***************************************************************************)
EXTENDS Integers, Sequences, FiniteSets, TLC

VARIABLES
    pc,              \* "start" before the call, "done" after it
    op,              \* the route or function called
    symptoms,        \* its argument: a request body or a symptom mapping
    daily_logs,      \* its argument: the daily logs
    daily_symptoms,  \* the list handed to aggregate_daily_logs
    aggregated,      \* what aggregate_daily_logs returned
    scored,          \* the mapping handed to generate_prediction
    result,          \* what generate_prediction returned
    response,        \* the HTTP response of a route
    raised,          \* the exception that left the call, "" when it returned
    env,             \* what the call finds outside: the model file, the LLM API
    calls,           \* predict_from_input calls made by this process
    model_loads,     \* times load_model has read the model file in this process
    request,         \* the argument of a call of the explanation layer
    llm_calls,       \* times the LLM client was invoked during the call
    requests         \* the local variables of each of the parallel requests

vars == <<pc, op, symptoms, daily_logs, daily_symptoms, aggregated,
          scored, result, response, raised, env,
          calls, model_loads, request, llm_calls, requests>>

(***************************************************************************)
(* Bounds of the model.                                                    *)
(***************************************************************************)
MaxDays == 3
MaxCalls == 3
MaxRequests == 2

(***************************************************************************)
(* Rationals.                                                              *)
(***************************************************************************)
Zero == <<0, 1>>
Half == <<1, 2>>
One  == <<1, 1>>
Two  == <<2, 1>>

RECURSIVE Gcd(_, _)
Gcd(a, b) == IF b = 0 THEN a ELSE Gcd(b, a % b)

\* n / d as Python's true division computes it (d > 0, n >= 0)
Div(n, d) == LET g == Gcd(n, d) IN <<n \div g, d \div g>>

\* v >= 0.5 in place of v > 0
GeHalf(v) == 2 * v[1] >= v[2]

Gt0(v)    == v[1] > 0                 \* v > 0
Truthy(v) == v[1] # 0                 \* bool(v)
Ge0(v)    == v[1] >= 0                \* Field(ge=0)
Lt1(v)    == v[1] < v[2]              \* Field(lt=1) in place of Field(le=1)
Le1(v)    == v[1] <= v[2]             \* Field(le=1)

Min(a, b) == IF a <= b THEN a ELSE b

\* one, in millionths
Unit == 1000 * 1000

\* round(x, 4) on millionths: to the nearest multiple of 100, ties to even
Round4(x) ==
    LET q == x \div 100
        r == x % 100
    IN  IF r < 50 THEN q * 100
        ELSE IF r > 50 THEN (q + 1) * 100
        ELSE IF q % 2 = 0 THEN q * 100 ELSE (q + 1) * 100

\* dict.get(key, default)
Get(d, k, default) == IF k \in DOMAIN d THEN d[k] ELSE default

(***************************************************************************)
(* The symptom keys.                                                       *)
(***************************************************************************)
\* the fields of SymptomInput, in declaration order
symptom_input_fields ==
    << "Irregular_Missed_periods", "Cramping", "Menstrual_clots",
       "Infertility", "Pain_Chronic_pain", "Diarrhea",
       "Long_menstruation", "Vomiting_constant_vomiting",
       "Migraines", "Extreme_Bloating", "Leg_pain", "Depression",
       "Fertility_Issues", "Ovarian_cysts", "Painful_urination",
       "Pain_after_Intercourse", "Digestive_GI_problems",
       "Anaemia_Iron_deficiency", "Hip_pain", "Vaginal_Pain_Pressure",
       "Cysts_unspecified", "Abnormal_uterine_bleeding",
       "Hormonal_problems", "Feeling_sick",
       "Abdominal_Cramps_during_Intercourse", "Insomnia_Sleeplessness",
       "Loss_of_appetite" >>

\* symptom_keys with its last entry lost
symptom_keys_short ==
    << "Irregular_Missed_periods", "Cramping", "Menstrual_clots",
       "Infertility", "Pain_Chronic_pain", "Diarrhea",
       "Long_menstruation", "Vomiting_constant_vomiting",
       "Migraines", "Extreme_Bloating", "Leg_pain", "Depression",
       "Fertility_Issues", "Ovarian_cysts", "Painful_urination",
       "Pain_after_Intercourse", "Digestive_GI_problems",
       "Anaemia_Iron_deficiency", "Hip_pain", "Vaginal_Pain_Pressure",
       "Cysts_unspecified", "Abnormal_uterine_bleeding",
       "Hormonal_problems", "Feeling_sick",
       "Abdominal_Cramps_during_Intercourse", "Insomnia_Sleeplessness" >>

\* symptom_keys of aggregate_daily_logs
symptom_keys ==
    << "Irregular_Missed_periods", "Cramping", "Menstrual_clots",
       "Infertility", "Pain_Chronic_pain", "Diarrhea",
       "Long_menstruation", "Vomiting_constant_vomiting",
       "Migraines", "Extreme_Bloating", "Leg_pain", "Depression",
       "Fertility_Issues", "Ovarian_cysts", "Painful_urination",
       "Pain_after_Intercourse", "Digestive_GI_problems",
       "Anaemia_Iron_deficiency", "Hip_pain", "Vaginal_Pain_Pressure",
       "Cysts_unspecified", "Abnormal_uterine_bleeding",
       "Hormonal_problems", "Feeling_sick",
       "Abdominal_Cramps_during_Intercourse", "Insomnia_Sleeplessness",
       "Loss_of_appetite" >>

\* symptom_keys of aggregate_daily_logs in predict_user_input.py
symptom_keys_user_input ==
    << "Irregular_Missed_periods", "Cramping", "Menstrual_clots",
       "Infertility", "Pain_Chronic_pain", "Diarrhea", "Long_menstruation",
       "Vomiting_constant_vomiting", "Migraines", "Extreme_Bloating",
       "Leg_pain", "Depression", "Fertility_Issues", "Ovarian_cysts",
       "Painful_urination", "Pain_after_Intercourse",
       "Digestive_GI_problems", "Anaemia_Iron_deficiency", "Hip_pain",
       "Vaginal_Pain_Pressure", "Cysts_unspecified",
       "Abnormal_uterine_bleeding", "Hormonal_problems", "Feeling_sick",
       "Abdominal_Cramps_during_Intercourse", "Insomnia_Sleeplessness",
       "Loss_of_appetite" >>

\* the list of /symptoms/list without its last entry
symptoms_list_short ==
    << "Irregular_Missed_periods", "Cramping", "Menstrual_clots",
       "Infertility", "Pain_Chronic_pain", "Diarrhea", "Long_menstruation",
       "Vomiting_constant_vomiting", "Migraines", "Extreme_Bloating",
       "Leg_pain", "Depression", "Fertility_Issues", "Ovarian_cysts",
       "Painful_urination", "Pain_after_Intercourse",
       "Digestive_GI_problems", "Anaemia_Iron_deficiency", "Hip_pain",
       "Vaginal_Pain_Pressure", "Cysts_unspecified",
       "Abnormal_uterine_bleeding", "Hormonal_problems", "Feeling_sick",
       "Abdominal_Cramps_during_Intercourse", "Insomnia_Sleeplessness" >>

\* the keys of the symptoms list of /symptoms/list, in order
symptoms_list ==
    << "Irregular_Missed_periods", "Cramping", "Menstrual_clots",
       "Infertility", "Pain_Chronic_pain", "Diarrhea", "Long_menstruation",
       "Vomiting_constant_vomiting", "Migraines", "Extreme_Bloating",
       "Leg_pain", "Depression", "Fertility_Issues", "Ovarian_cysts",
       "Painful_urination", "Pain_after_Intercourse",
       "Digestive_GI_problems", "Anaemia_Iron_deficiency", "Hip_pain",
       "Vaginal_Pain_Pressure", "Cysts_unspecified",
       "Abnormal_uterine_bleeding", "Hormonal_problems", "Feeling_sick",
       "Abdominal_Cramps_during_Intercourse", "Insomnia_Sleeplessness",
       "Loss_of_appetite" >>

high_risk_symptoms ==
    << "Pain_Chronic_pain", "Cramping", "Pain_after_Intercourse",
       "Ovarian_cysts", "Extreme_Bloating", "Infertility" >>

moderate_risk_symptoms ==
    << "Irregular_Missed_periods", "Menstrual_clots", "Migraines",
       "Depression", "Digestive_GI_problems", "Painful_urination" >>

Range(s) == {s[i] : i \in DOMAIN s}

SymptomInputFields == Range(symptom_input_fields)

\* the fields that are in neither scoring subset, in declaration order
other_symptoms ==
    SelectSeq(symptom_input_fields,
              LAMBDA k : k \notin Range(high_risk_symptoms)
                         /\ k \notin Range(moderate_risk_symptoms))

(***************************************************************************)
(* generate_prediction (predict_api.py).                                   *)
(***************************************************************************)
\* symptom_count: the values of the mapping that are > 0, whatever their key
symptom_count(symptom_data) ==
    Cardinality({k \in DOMAIN symptom_data : Gt0(symptom_data[k])})

high_risk_count(symptom_data) ==
    Cardinality({i \in DOMAIN high_risk_symptoms :
                    Gt0(Get(symptom_data, high_risk_symptoms[i], Zero))})

moderate_risk_count(symptom_data) ==
    Cardinality({i \in DOMAIN moderate_risk_symptoms :
                    Gt0(Get(symptom_data, moderate_risk_symptoms[i], Zero))})

\* weighted_score with the symptom count weighted 1 instead of 0.5
weighted_score_full_count(symptom_data) ==
    (high_risk_count(symptom_data) * 2) * 2
    + (moderate_risk_count(symptom_data) * 1) * 2
    + symptom_count(symptom_data) * 2

\* weighted_score without the symptom count term
weighted_score_no_count(symptom_data) ==
    (high_risk_count(symptom_data) * 2) * 2
    + (moderate_risk_count(symptom_data) * 1) * 2

\* weighted_score, in halves: (high * 2) + (moderate * 1) + (count * 0.5)
weighted_score(symptom_data) ==
    (high_risk_count(symptom_data) * 2) * 2
    + (moderate_risk_count(symptom_data) * 1) * 2
    + symptom_count(symptom_data)

\* risk_level without the high_risk_count >= 3 clause
risk_level_no_tiebreak(symptom_data) ==
    IF weighted_score(symptom_data) >= 8 * 2
    THEN "High"
    ELSE IF weighted_score(symptom_data) >= 4 * 2 \/ high_risk_count(symptom_data) >= 1
    THEN "Moderate"
    ELSE "Low"

\* risk_level with the tie-break clause written high_risk_count > 3
risk_level_gt3(symptom_data) ==
    IF weighted_score(symptom_data) >= 8 * 2 \/ high_risk_count(symptom_data) > 3
    THEN "High"
    ELSE IF weighted_score(symptom_data) >= 4 * 2 \/ high_risk_count(symptom_data) >= 1
    THEN "Moderate"
    ELSE "Low"

\* the branch of the if / elif / else taken: its risk_level
risk_level(symptom_data) ==
    IF weighted_score(symptom_data) >= 8 * 2 \/ high_risk_count(symptom_data) >= 3
    THEN "High"
    ELSE IF weighted_score(symptom_data) >= 4 * 2 \/ high_risk_count(symptom_data) >= 1
    THEN "Moderate"
    ELSE "Low"

\* endo_prob with the Low branch starting at 0.2 instead of 0.1
endo_prob_low20(symptom_data) ==
    LET ws == weighted_score(symptom_data)
    IN  CASE risk_level(symptom_data) = "High" ->
               Min(850000, 600000 + (ws * 50000) \div 2)
          [] risk_level(symptom_data) = "Moderate" ->
               Min(650000, 300000 + (ws * 80000) \div 2)
          [] OTHER ->
               Min(350000, 200000 + (ws * 50000) \div 2)

\* endo_prob with the Moderate branch capped at 0.75 instead of 0.65
endo_prob_cap75(symptom_data) ==
    LET ws == weighted_score(symptom_data)
    IN  CASE risk_level(symptom_data) = "High" ->
               Min(850000, 600000 + (ws * 50000) \div 2)
          [] risk_level(symptom_data) = "Moderate" ->
               Min(750000, 300000 + (ws * 80000) \div 2)
          [] OTHER ->
               Min(350000, 100000 + (ws * 50000) \div 2)

\* endo_prob of the branch, in millionths
\* endo_prob whose High branch forgets the weighted term: 0.6
endo_prob_high60(symptom_data) ==
    LET ws == weighted_score(symptom_data)
    IN  CASE risk_level(symptom_data) = "High" ->
               600000
          [] risk_level(symptom_data) = "Moderate" ->
               Min(650000, 300000 + (ws * 80000) \div 2)
          [] OTHER ->
               Min(350000, 100000 + (ws * 50000) \div 2)

endo_prob(symptom_data) ==
    LET ws == weighted_score(symptom_data)
    IN  CASE risk_level(symptom_data) = "High" ->
               Min(850000, 600000 + (ws * 50000) \div 2)
          [] risk_level(symptom_data) = "Moderate" ->
               Min(650000, 300000 + (ws * 80000) \div 2)
          [] OTHER ->
               Min(350000, 100000 + (ws * 50000) \div 2)

\* prediction with the Moderate test written endo_prob <= 0.5
prediction_le50(symptom_data) ==
    CASE risk_level(symptom_data) = "High" -> 1
      [] risk_level(symptom_data) = "Moderate" ->
           IF endo_prob(symptom_data) <= 500000 THEN 0 ELSE 1
      [] OTHER -> 0

prediction(symptom_data) ==
    CASE risk_level(symptom_data) = "High" -> 1
      [] risk_level(symptom_data) = "Moderate" ->
           IF endo_prob(symptom_data) < 500000 THEN 0 ELSE 1
      [] OTHER -> 0

\* confidence that forgets the predicted class
confidence_of_endo(symptom_data) == endo_prob(symptom_data)

confidence(symptom_data) ==
    IF prediction(symptom_data) = 1
    THEN endo_prob(symptom_data)
    ELSE Unit - endo_prob(symptom_data)

prediction_label(p) == IF p = 1 THEN "Endometriosis" ELSE "No Endometriosis"

\* generate_prediction reporting the confidence as the no_endometriosis probability
generate_prediction_conf(symptom_data) ==
    [ prediction       |-> prediction(symptom_data),
      prediction_label |-> prediction_label(prediction(symptom_data)),
      confidence       |-> Round4(confidence(symptom_data)),
      probabilities    |->
          [ no_endometriosis |-> Round4(confidence(symptom_data)),
            endometriosis    |-> Round4(endo_prob(symptom_data)) ],
      risk_level       |-> risk_level(symptom_data) ]

generate_prediction(symptom_data) ==
    [ prediction       |-> prediction(symptom_data),
      prediction_label |-> prediction_label(prediction(symptom_data)),
      confidence       |-> Round4(confidence(symptom_data)),
      probabilities    |->
          [ no_endometriosis |-> Round4(Unit - endo_prob(symptom_data)),
            endometriosis    |-> Round4(endo_prob(symptom_data)) ],
      risk_level       |-> risk_level(symptom_data) ]

\* get_risk_level (predict_user_input.py): the threshold table, in millionths
get_risk_level(endo_probability) ==
    IF endo_probability < 300000 THEN "Low"
    ELSE IF endo_probability < 700000 THEN "Moderate"
    ELSE "High"

(***************************************************************************)
(* aggregate_daily_logs (both copies are the same text).                   *)
(***************************************************************************)
EmptyDict == [k \in {} |-> Zero]

\* days_present that counts only the days whose value is exactly 1
days_present_eq1(logs, key) ==
    Cardinality({i \in DOMAIN logs : Get(logs[i], key, Zero) = One})

\* days_present with log.get(key, True): a missing key counts as present
days_present_default_true(logs, key) ==
    Cardinality({i \in DOMAIN logs : Truthy(Get(logs[i], key, One))})

\* days_present that skips the first log (daily_logs[1:])
days_present_skip_first(logs, key) ==
    Cardinality({i \in DOMAIN logs : i > 1 /\ Truthy(Get(logs[i], key, Zero))})

\* sum(1 for log in daily_logs if log.get(key, False))
days_present(logs, key) ==
    Cardinality({i \in DOMAIN logs : Truthy(Get(logs[i], key, Zero))})

\* the sum of the raw values of key over the logs, as a rational
RECURSIVE SumValues(_, _, _)
SumValues(logs, key, n) ==
    IF n = 0 THEN Zero
    ELSE LET a == SumValues(logs, key, n - 1)
             b == Get(logs[n], key, Zero)
         IN  Div(a[1] * b[2] + b[1] * a[2], a[2] * b[2])

\* aggregate_daily_logs that averages the raw values instead of counting presence
aggregate_daily_logs_mean(logs) ==
    IF Len(logs) = 0
    THEN EmptyDict
    ELSE [key \in Range(symptom_keys) |->
             LET t == SumValues(logs, key, Len(logs))
             IN  Div(t[1], t[2] * Len(logs))]

aggregate_daily_logs(logs) ==
    IF Len(logs) = 0
    THEN EmptyDict
    ELSE [key \in Range(symptom_keys) |->
             Div(days_present(logs, key), Len(logs))]

(***************************************************************************)
(* SymptomInput: the request model of both routes.  A body is accepted     *)
(* when every declared field it gives is in [0, 1]; fields it omits are 0  *)
(* and keys that are no field are dropped.                                 *)
(***************************************************************************)
\* SymptomInput whose fields lost their upper bound: Field(0, ge=0)
SymptomInputValid_ge_only(body) ==
    \A k \in DOMAIN body \cap SymptomInputFields : Ge0(body[k])

SymptomInputValid(body) ==
    \A k \in DOMAIN body \cap SymptomInputFields : Ge0(body[k]) /\ Le1(body[k])

SymptomInputDict(body) ==
    [k \in SymptomInputFields |-> Get(body, k, Zero)]

(***************************************************************************)
(* Responses.                                                              *)
(***************************************************************************)
NoResult ==
    [ prediction       |-> -1,
      prediction_label |-> "",
      confidence       |-> 0,
      probabilities    |-> [no_endometriosis |-> 0, endometriosis |-> 0],
      risk_level       |-> "" ]

NoMessage == [text |-> "", risk |-> "", day_count |-> 0]

NoResponse == [status_code |-> 0, detail |-> <<>>, body |-> NoResult, message |-> NoMessage]

\* HTTPException(status_code, detail) as the client sees it
HTTPException(status_code, detail) ==
    [status_code |-> status_code, detail |-> detail, body |-> NoResult, message |-> NoMessage]

\* the request body failed SymptomInput / MultiDayInput validation
RequestValidationError == HTTPException(422, <<"value is not a valid SymptomInput">>)

\* str.lower() on a risk level
Lower(s) ==
    CASE s = "High" -> "high"
      [] s = "Moderate" -> "moderate"
      [] s = "Low" -> "low"
      [] s = "Unknown" -> "unknown"
      [] OTHER -> s

\* the interpretive message of both routes (day_count is 0 on /predict)
Message(r, day_count) ==
    IF r.prediction = 1
    THEN [text |-> "risk", risk |-> Lower(r.risk_level), day_count |-> day_count]
    ELSE [text |-> "low likelihood", risk |-> "", day_count |-> day_count]

PredictionResponse(r, message) ==
    [status_code |-> 200, detail |-> <<>>, body |-> r, message |-> message]

\* the answer of GET /symptoms/list
list_symptoms ==
    [ status_code |-> 200,
      detail      |-> <<>>,
      body        |-> [ symptoms    |-> symptoms_list,
                        total_count |-> Len(symptoms_list) ],
      message     |-> NoMessage ]

(***************************************************************************)
(* predict_from_input (predict_user_input.py).  The trained model is a     *)
(* file outside the repository: whether it exists, whether joblib can load *)
(* it and what it answers are drawn by the environment.                    *)
(***************************************************************************)
generate_dummy_prediction(input_data_dict) ==
    LET count == Cardinality({k \in DOMAIN input_data_dict : Gt0(input_data_dict[k])})
        p     == IF count >= 8 THEN 750000 ELSE IF count >= 4 THEN 450000 ELSE 200000
        level == IF count >= 8 THEN "High" ELSE IF count >= 4 THEN "Moderate" ELSE "Low"
        pred  == IF count >= 8 THEN 1 ELSE 0
    IN  [ prediction       |-> pred,
          prediction_label |-> prediction_label(pred),
          confidence       |-> Round4(IF pred = 0 THEN Unit - p ELSE p),
          probabilities    |->
              [ no_endometriosis |-> Round4(Unit - p),
                endometriosis    |-> Round4(p) ],
          risk_level       |-> level ]

\* load_model(): None when no path exists, an exception when joblib.load fails
load_model(e) ==
    CASE e.model_file = "missing" -> [raised |-> FALSE, model |-> "None"]
      [] e.model_file = "corrupt" -> [raised |-> TRUE,  model |-> "None"]
      [] OTHER                    -> [raised |-> FALSE, model |-> "model"]

\* the return statement of the try block, from model.predict and predict_proba
model_prediction(e) ==
    LET no_endo_prob == Unit - e.endo_prob
        endo_p       == e.endo_prob
        conf         == IF e.prediction = 1 THEN endo_p ELSE no_endo_prob
    IN  [ prediction       |-> e.prediction,
          prediction_label |-> prediction_label(e.prediction),
          confidence       |-> Round4(conf),
          probabilities    |->
              [ no_endometriosis |-> Round4(no_endo_prob),
                endometriosis    |-> Round4(endo_p) ],
          risk_level       |-> get_risk_level(endo_p) ]

predict_from_input(input_data_dict, e) ==
    LET loaded == load_model(e)
    IN  IF loaded.raised
        THEN generate_dummy_prediction(input_data_dict)      \* except Exception
        ELSE IF loaded.model = "None"
        THEN generate_dummy_prediction(input_data_dict)      \* if model is None
        ELSE IF e.inference_raises
        THEN generate_dummy_prediction(input_data_dict)      \* except Exception
        ELSE model_prediction(e)

\* joblib.load calls of one load_model call: one when a path exists
joblib_loads(e) == IF e.model_file \in {"ok", "corrupt"} THEN 1 ELSE 0

\* no explanation request
NoRequest == [user_query |-> {}, prediction_result |-> <<>>, use_fallback |-> FALSE]

NoEnv == [model_file |-> "", inference_raises |-> FALSE, prediction |-> 0, endo_prob |-> 0]

\* the probabilities of endometriosis the model may answer, in millionths
ModelProbabilities == {100000, 299960, 300000, 500000, 699960, 700000, 900000}

Environments ==
    { [model_file |-> f, inference_raises |-> FALSE, prediction |-> 0, endo_prob |-> 0] :
        f \in {"missing", "corrupt"} }
    \cup { [model_file |-> "ok", inference_raises |-> TRUE, prediction |-> 0, endo_prob |-> 0] }
    \cup { [model_file |-> "ok", inference_raises |-> FALSE, prediction |-> y, endo_prob |-> q] :
             y \in {0, 1}, q \in ModelProbabilities }

(***************************************************************************)
(* The explanation layer (src/rag-system).  A prediction_result is a JSON  *)
(* object any caller may send: a value carries its Python type.  A str is  *)
(* a text that is no decimal numeral; a float is held in millionths.       *)
(***************************************************************************)
PyNone     == [type |-> "NoneType", s |-> "", n |-> 0, d |-> <<>>]
PyStr(x)   == [type |-> "str",      s |-> x,  n |-> 0, d |-> <<>>]
PyInt(x)   == [type |-> "int",      s |-> "", n |-> x, d |-> <<>>]
PyFloat(x) == [type |-> "float",    s |-> "", n |-> x, d |-> <<>>]
PyDict(x)  == [type |-> "dict",     s |-> "", n |-> 0, d |-> x]

IsNumber(v) == v.type \in {"int", "float"}

\* the value of a number, in millionths
Num(v) == IF v.type = "int" THEN v.n * Unit ELSE v.n

\* a Prediction Outcome as the JSON object the explanation layer receives
AsJson(r) ==
    [ prediction       |-> PyInt(r.prediction),
      prediction_label |-> PyStr(r.prediction_label),
      confidence       |-> PyFloat(r.confidence),
      probabilities    |-> PyDict([ no_endometriosis |-> PyFloat(r.probabilities.no_endometriosis),
                                    endometriosis    |-> PyFloat(r.probabilities.endometriosis) ]),
      risk_level       |-> PyStr(r.risk_level) ]

\* a text: its content, the length of the content without the surrounding
\* whitespace, and the number of surrounding whitespace characters
Text(text, length, pad) == [text |-> text, length |-> length, pad |-> pad]

\* str.strip()
strip(t) == [t EXCEPT !.pad = 0]

\* len(str)
len(t) == t.length + t.pad

\* the documents of the vector store
PainDoc      == "Endometriosis commonly causes pelvic pain"
DiagnosisDoc == "Diagnosis of endometriosis requires medical evaluation"
RiskDoc      == "Risk assessment tools help identify when to seek medical care"
DefaultDoc   == "Endometriosis is a complex condition"

\* the first n elements of a sequence: seq[:n]
Head_n(seq, n) == SubSeq(seq, 1, Min(n, Len(seq)))

\* MedicalKnowledgeVectorStore.search_similar_documents(query, k); a query
\* is the set of the keywords it contains
search_similar_documents(query, k) ==
    LET pain      == IF query \cap {"pain", "symptom", "treatment"} # {}
                     THEN <<PainDoc>> ELSE <<>>
        diagnosis == IF query \cap {"diagnosis", "doctor", "medical"} # {}
                     THEN <<DiagnosisDoc>> ELSE <<>>
        risk      == IF query \cap {"risk", "probability", "chance"} # {}
                     THEN <<RiskDoc>> ELSE <<>>
        relevant_docs == pain \o diagnosis \o risk
    IN  Head_n(IF relevant_docs = <<>> THEN <<DefaultDoc>> ELSE relevant_docs, k)

\* the for loops of generate_explanation that fill medical_context
RECURSIVE AppendNew(_, _)
AppendNew(medical_context, docs) ==
    IF docs = <<>> THEN medical_context
    ELSE AppendNew(IF Head(docs) \in Range(medical_context)
                   THEN medical_context
                   ELSE Append(medical_context, Head(docs)),
                   Tail(docs))

medical_context_of(user_query) ==
    LET search_queries == << user_query,
                             {"risk", "symptom", "symptoms"},
                             {"diagnosis", "next steps"} >>
        after1 == AppendNew(<<>>,   search_similar_documents(search_queries[1], 2))
        after2 == AppendNew(after1, search_similar_documents(search_queries[2], 2))
    IN  AppendNew(after2, search_similar_documents(search_queries[3], 2))

\* TogetherLlamaClient._get_fallback_response(prompt); a prompt is the set
\* of the keywords it contains, the length is that of the returned literal
get_fallback_response(prompt) ==
    IF "what does" \in prompt
       /\ prompt \cap {"%", "probability", "risk score"} # {}
    THEN Text("Your risk score represents how closely", 790, 0)
    ELSE IF prompt \cap {"next steps", "what should i do"} # {}
    THEN Text("Based on your results, here are the recommended next steps", 689, 0)
    ELSE IF prompt \cap {"accurate", "accuracy"} # {}
    THEN Text("This analysis is based on machine learning patterns", 704, 0)
    ELSE IF prompt \cap {"concerning", "symptoms"} # {}
    THEN Text("The most concerning symptoms that warrant prompt medical attention", 750, 0)
    ELSE IF prompt \cap {"treatment", "options"} # {}
    THEN Text("Treatment options for endometriosis vary", 741, 0)
    ELSE Text("Thank you for your question about endometriosis", 589, 0)

NoText == Text("", 0, 0)

\* TogetherLlamaClient.send_request(prompt) when the API answers e: what it
\* returns; it has no exit by exception
send_request_no_strip(prompt, e) ==
    CASE e.api = "raises"       -> get_fallback_response(prompt)
      [] e.api = "no_choices"   -> get_fallback_response(prompt)
      [] e.api = "content_none" -> get_fallback_response(prompt)
      [] OTHER ->
           IF len(e.content) > 0
           THEN strip(e.content)
           ELSE get_fallback_response(prompt)

send_request(prompt, e) ==
    CASE e.api = "raises"       -> get_fallback_response(prompt)
      [] e.api = "no_choices"   -> get_fallback_response(prompt)
      [] e.api = "content_none" -> get_fallback_response(prompt)
      [] OTHER ->
           IF len(e.content) > 0 /\ len(strip(e.content)) > 0
           THEN strip(e.content)
           ELSE get_fallback_response(prompt)

\* the keywords of the prompt template of TogetherLlamaClient.generate_explanation
explanation_prompt_keywords == {"%", "probability", "risk score", "risk", "next steps"}

\* TogetherLlamaClient.generate_explanation: the format specs of the prompt
\* raise for a probability or a confidence that is no number
client_generate_explanation(user_query, prediction_result, medical_context, e) ==
    LET probabilities == Get(prediction_result, "probabilities", PyDict(<<>>))
        probability   == IF probabilities.type = "dict"
                         THEN Get(probabilities.d, "endometriosis", PyInt(0))
                         ELSE PyNone
        conf          == Get(prediction_result, "confidence", PyInt(0))
        prompt        == explanation_prompt_keywords \cup user_query
    IN  IF probabilities.type # "dict"
        THEN [raised |-> "AttributeError", text |-> NoText]
        ELSE IF ~IsNumber(probability) \/ ~IsNumber(conf)
        THEN [raised |-> "TypeError", text |-> NoText]
        ELSE [raised |-> "", text |-> send_request(prompt, e)]

\* int(probability * 100) for a number; 0.58 * 100 is 57.99999999999999 in
\* binary floating point, the other probabilities of the model are exact
int_percent(probability) ==
    IF Num(probability) = 580000 THEN 57 ELSE (Num(probability) * 100) \div Unit

\* a canned explanation: the branch of the if / elif / else that wrote it
FallbackExplanation(origin, branch, probability_percent) ==
    [ text                |-> origin,
      branch              |-> branch,
      probability_percent |-> probability_percent ]

NoExplanation == FallbackExplanation("", "", 0)

\* the branch with the high test written probability > 0.1
explanation_branch_p10(level, probability) ==
    IF level = "high" \/ Num(probability) > 100000
    THEN "high"
    ELSE IF level = "moderate" \/ (Num(probability) > 300000 /\ Num(probability) <= 700000)
    THEN "moderate"
    ELSE "low"

\* the if / elif / else of _get_fallback_explanation and of
\* get_fallback_explanation, for a probability that is a number
explanation_branch(level, probability) ==
    IF level = "high" \/ Num(probability) > 700000
    THEN "high"
    ELSE IF level = "moderate" \/ (Num(probability) > 300000 /\ Num(probability) <= 700000)
    THEN "moderate"
    ELSE "low"

\* EndometriosisExplanationService._get_fallback_explanation
service_get_fallback_explanation(level, user_query, probability) ==
    IF ~IsNumber(probability)
    THEN \* int(probability * 100)
         [ raised |-> IF probability.type = "str" THEN "ValueError" ELSE "TypeError",
           text   |-> NoExplanation ]
    ELSE [ raised |-> "",
           text   |-> FallbackExplanation("service",
                                          explanation_branch(level, probability),
                                          int_percent(probability)) ]

Recommendation(category, action, priority) ==
    [category |-> category, action |-> action, priority |-> priority]

\* the branch of _get_recommendations, for a probability that is a number
recommendations_branch(level, probability) ==
    IF level = "high" \/ Num(probability) > 700000
    THEN "high"
    ELSE IF level = "moderate" \/ Num(probability) > 300000
    THEN "moderate"
    ELSE "low"

\* EndometriosisExplanationService._get_recommendations
service_get_recommendations(level, probability) ==
    LET base_recommendations ==
            << Recommendation("Self-Care", "Continue tracking your symptoms", ""),
               Recommendation("Lifestyle", "Practice stress management", "") >>
    IN  IF level # "high" /\ ~IsNumber(probability)
        THEN \* probability > 0.7
             [raised |-> "TypeError", recommendations |-> <<>>]
        ELSE [ raised |-> "",
               recommendations |->
                 base_recommendations \o
                 CASE level = "high" \/ recommendations_branch(level, probability) = "high" ->
                        << Recommendation("Medical Care", "Schedule gynecologist appointment urgently", "high"),
                           Recommendation("Preparation", "Prepare for medical appointment", "high") >>
                   [] recommendations_branch(level, probability) = "moderate" ->
                        << Recommendation("Medical Care", "Schedule gynecologist consultation", "medium") >>
                   [] OTHER ->
                        << Recommendation("Monitoring", "Continue regular check-ups", "") >> ]

\* what a call of the explanation layer gives back: the exception that left
\* it ("" when it returned), the returned value, the LLM client invocations
Returned(value, invocations) == [raised |-> "", value |-> value, llm_calls |-> invocations]
Raised(exception, invocations) == [raised |-> exception, value |-> NoResult, llm_calls |-> invocations]

\* generate_explanation that asks the LLM client before it looks at use_fallback
service_generate_explanation_always_ai(user_query, prediction_result, use_fallback, e) ==
    LET level_value      == Get(prediction_result, "risk_level", PyStr("Unknown"))
        label            == Get(prediction_result, "prediction_label", PyStr("Unknown"))
        conf             == Get(prediction_result, "confidence", PyInt(0))
        probabilities    == Get(prediction_result, "probabilities", PyDict(<<>>))
        level            == Lower(level_value.s)
        endo_probability == Get(probabilities.d, "endometriosis", PyInt(0))
        medical_context  == medical_context_of(user_query)
        ai               == client_generate_explanation(user_query, prediction_result,
                                                        Head_n(medical_context, 2), e)
        fallback         == service_get_fallback_explanation(level, user_query, endo_probability)
        recs             == service_get_recommendations(level, endo_probability)
    IN  IF level_value.type # "str" \/ probabilities.type # "dict" \/ ~IsNumber(endo_probability)
        THEN Raised("UnboundLocalError", 0)
        ELSE Returned([ explanation     |-> IF ai.raised # "" \/ len(strip(ai.text)) < 50
                                            THEN fallback.text ELSE ai.text,
                        recommendations |-> recs.recommendations,
                        risk_level      |-> level,
                        confidence      |-> conf,
                        medical_context_used |-> Len(medical_context),
                        prediction_summary |->
                            [label |-> label, probability |-> endo_probability,
                             risk_level |-> level] ], 1)

\* EndometriosisExplanationService.generate_explanation
service_generate_explanation(user_query, prediction_result, use_fallback, e) ==
    LET level_value      == Get(prediction_result, "risk_level", PyStr("Unknown"))
        label            == Get(prediction_result, "prediction_label", PyStr("Unknown"))
        conf             == Get(prediction_result, "confidence", PyInt(0))
        probabilities    == Get(prediction_result, "probabilities", PyDict(<<>>))
        level            == Lower(level_value.s)
        endo_probability == Get(probabilities.d, "endometriosis", PyInt(0))
        medical_context  == medical_context_of(user_query)
        ai               == client_generate_explanation(user_query, prediction_result,
                                                        Head_n(medical_context, 2), e)
        fallback         == service_get_fallback_explanation(level, user_query, endo_probability)
        recs             == service_get_recommendations(level, endo_probability)
        summary          == [label |-> label, probability |-> endo_probability,
                             risk_level |-> level]
    IN  IF level_value.type # "str"
        THEN \* .lower() raises at line 28; the except block reads risk_level,
             \* which was never bound
             Raised("UnboundLocalError", 0)
        ELSE IF probabilities.type # "dict"
        THEN \* .get raises at line 31; the except block reads endo_probability
             Raised("UnboundLocalError", 0)
        ELSE IF ~IsNumber(endo_probability)
        THEN \* the format spec of line 34 raises; the except block
             IF fallback.raised # "" THEN Raised(fallback.raised, 0)
             ELSE IF recs.raised # "" THEN Raised(recs.raised, 0)
             ELSE Returned([ explanation     |-> fallback.text,
                             recommendations |-> recs.recommendations,
                             risk_level      |-> level,
                             confidence      |-> conf,
                             error           |-> "Unknown format code",
                             prediction_summary |-> summary ], 0)
        ELSE IF use_fallback
        THEN Returned([ explanation     |-> fallback.text,
                        recommendations |-> recs.recommendations,
                        risk_level      |-> level,
                        confidence      |-> conf,
                        medical_context_used |-> Len(medical_context),
                        prediction_summary |-> summary ], 0)
        ELSE Returned([ explanation     |-> IF ai.raised # "" \/ len(strip(ai.text)) < 50
                                            THEN fallback.text ELSE ai.text,
                        recommendations |-> recs.recommendations,
                        risk_level      |-> level,
                        confidence      |-> conf,
                        medical_context_used |-> Len(medical_context),
                        prediction_summary |-> summary ], 1)

\* get_fallback_explanation of rag_api.py
get_fallback_explanation(prediction_result) ==
    LET level_value   == Get(prediction_result, "risk_level", PyStr("Unknown"))
        probabilities == Get(prediction_result, "probabilities", PyDict(<<>>))
        probability   == Get(probabilities.d, "endometriosis", PyInt(0))
    IN  IF level_value.type # "str" \/ probabilities.type # "dict"
        THEN [raised |-> "AttributeError", text |-> NoExplanation]
        ELSE IF ~IsNumber(probability)
        THEN [ raised |-> IF probability.type = "str" THEN "ValueError" ELSE "TypeError",
               text   |-> NoExplanation ]
        ELSE [ raised |-> "",
               text   |-> FallbackExplanation("rag_api",
                                              explanation_branch(Lower(level_value.s), probability),
                                              int_percent(probability)) ]

\* get_fallback_recommendations of rag_api.py
get_fallback_recommendations(prediction_result) ==
    LET level_value == Get(prediction_result, "risk_level", PyStr("Unknown"))
        level       == Lower(level_value.s)
        base_recs   == << Recommendation("Self-Care", "Continue tracking symptoms", "") >>
    IN  IF level_value.type # "str"
        THEN [raised |-> "AttributeError", recommendations |-> <<>>]
        ELSE [ raised |-> "",
               recommendations |->
                 base_recs \o
                 CASE level = "high" ->
                        << Recommendation("Medical Care", "Schedule gynecologist appointment urgently", "high") >>
                   [] level = "moderate" ->
                        << Recommendation("Medical Care", "Schedule gynecologist consultation", "medium") >>
                   [] OTHER ->
                        << Recommendation("Monitoring", "Continue regular check-ups", "") >> ]

\* POST /explain of rag_api.py: the returned dict, or the exception of the try block
explain(req, e) ==
    IF ~e.service_loaded
    THEN LET prediction_result == req.prediction_result
             explanation     == get_fallback_explanation(prediction_result)
             recommendations == get_fallback_recommendations(prediction_result)
             level_value     == Get(prediction_result, "risk_level", PyStr("Unknown"))
             probabilities   == Get(prediction_result, "probabilities", PyDict(<<>>))
             summary == [ label       |-> Get(prediction_result, "prediction_label", PyStr("Unknown")),
                          probability |-> Get(probabilities.d, "endometriosis", PyInt(0)),
                          risk_level  |-> level_value.s ]
         IN  IF explanation.raised # "" THEN Raised(explanation.raised, 0)
             ELSE IF recommendations.raised # "" THEN Raised(recommendations.raised, 0)
             ELSE Returned([ explanation     |-> explanation.text,
                             recommendations |-> recommendations.recommendations,
                             risk_level      |-> level_value.s,
                             confidence      |-> Get(prediction_result, "confidence", PyInt(0)),
                             prediction_summary |-> summary ], 0)
    ELSE service_generate_explanation(req.user_query, req.prediction_result,
                                      req.use_fallback, e)

(***************************************************************************)
(* The inputs.                                                             *)
(***************************************************************************)
Prefix(s, n) == {s[i] : i \in 1..n}

MakeVector(P, v) == [k \in SymptomInputFields |-> IF k \in P THEN v ELSE Zero]

\* complete vectors of 0 and 1: the first n fields are present
PrefixVectors ==
    { MakeVector(Prefix(symptom_input_fields, n), One) : n \in 0..Len(symptom_input_fields) }

\* complete vectors of 0 and 1: the first h high-risk, m moderate-risk and o
\* other keys are present
CountVectors ==
    { MakeVector(Prefix(high_risk_symptoms, h) \cup Prefix(moderate_risk_symptoms, m)
                 \cup Prefix(other_symptoms, o), One) :
        h \in 0..Len(high_risk_symptoms),
        m \in 0..Len(moderate_risk_symptoms),
        o \in 0..Len(other_symptoms) }

\* complete vectors: any high-risk subset, the first m moderate-risk and the
\* first o other keys, present with value 1/2 or 1
FeatureVectors ==
    { MakeVector(H \cup Prefix(moderate_risk_symptoms, m) \cup Prefix(other_symptoms, o), v) :
        H \in SUBSET Range(high_risk_symptoms),
        m \in 0..Len(moderate_risk_symptoms),
        o \in 0..Len(other_symptoms),
        v \in {Half, One} }

\* mappings that are no complete vector: keys missing, a key that is no
\* symptom, a value outside [0, 1]
OtherMappings ==
    { EmptyDict,
      [k \in {"Cramping"} |-> One],
      [k \in {"Cramping", "Infertility", "Ovarian_cysts"} |-> One],
      [k \in {"Cramping", "Migraines", "Hip_pain", "Leg_pain"} |-> Half],
      [k \in {"Unknown_symptom"} |-> One],
      [k \in Prefix(symptom_input_fields, 7) \cup {"Unknown_symptom"} |-> One],
      [k \in SymptomInputFields \cup {"Unknown_symptom"} |->
          IF k \in {"Cramping", "Unknown_symptom"} THEN One ELSE Zero],
      MakeVector({"Cramping"}, Two),
      MakeVector({"Migraines"}, <<-1, 1>>) }

\* the daily logs: three high-risk keys vary, one of them fractionally; one
\* log carries a value outside [0, 1] (a negative number is truthy) and one
\* gives two keys only
DayLogs ==
    { [k \in SymptomInputFields |->
          CASE k = "Cramping" -> c
            [] k = "Pain_Chronic_pain" -> p
            [] k = "Extreme_Bloating" -> b
            [] OTHER -> Zero] :
        c \in {Zero, Half}, p \in {Zero, One}, b \in {Zero, One} }
    \cup { MakeVector({"Cramping"}, <<-1, 1>>),
           [k \in {"Pain_Chronic_pain", "Migraines"} |-> One] }

LogLists == UNION { [1..n -> DayLogs] : n \in 0..MaxDays }

(***************************************************************************)
(* The calls.                                                              *)
(***************************************************************************)
\* dict without a key, and with a key set
Without(dct, key) == [x \in DOMAIN dct \ {key} |-> dct[x]]
With(dct, key, value) == [x \in DOMAIN dct \cup {key} |-> IF x = key THEN value ELSE dct[x]]

\* the outcomes the two scorers can return
ScorerOutcomes == {generate_prediction(v) : v \in CountVectors}
DummyOutcomes  == {generate_dummy_prediction(v) : v \in PrefixVectors}

\* prediction results with an entry missing, null or of the wrong type
MalformedResults ==
    LET good == AsJson(generate_dummy_prediction(MakeVector(SymptomInputFields, One)))
    IN  { <<>>,
          Without(good, "risk_level"),
          With(good, "risk_level", PyNone),
          With(good, "risk_level", PyInt(3)),
          Without(good, "probabilities"),
          With(good, "probabilities", PyNone),
          With(good, "probabilities", PyStr("abc")),
          With(good, "probabilities", PyDict(<<>>)),
          With(good, "probabilities", PyDict([endometriosis |-> PyNone])),
          With(good, "probabilities", PyDict([endometriosis |-> PyStr("abc")])),
          Without(good, "confidence"),
          With(good, "confidence", PyNone),
          With(good, "confidence", PyStr("abc")) }

PredictionResults ==
    {AsJson(r) : r \in ScorerOutcomes \cup DummyOutcomes} \cup MalformedResults

\* user queries, each the set of the keywords it contains
UserQueries ==
    { {"what does", "%", "risk score", "risk"},
      {},
      {"pain", "treatment", "options"} }

\* prompts handed to send_request directly
Prompts ==
    { {"what does", "probability"}, {"what does"}, {"next steps"}, {"accuracy"},
      {"symptoms", "symptom"}, {"options"}, {} }

ExplanationRequests ==
    { [user_query |-> q, prediction_result |-> r, use_fallback |-> f] :
        q \in UserQueries, r \in PredictionResults, f \in BOOLEAN }

\* what the API may answer in message.content
Contents ==
    { Text("", 0, 0), Text("", 0, 3), Text("ok", 2, 2),
      Text("forty-nine characters", 49, 2), Text("fifty characters", 50, 2),
      Text("an explanation written by the model", 300, 0),
      get_fallback_response({"what does", "%"}),
      get_fallback_response({"next steps"}) }

\* what a call of the explanation layer finds outside
LlmEnvironments ==
    { [service_loaded |-> TRUE, api |-> a, content |-> NoText] :
        a \in {"raises", "no_choices", "content_none"} }
    \cup { [service_loaded |-> TRUE, api |-> "content", content |-> c] : c \in Contents }

ServiceNotLoaded == [service_loaded |-> FALSE, api |-> "raises", content |-> NoText]

Init ==
    /\ pc = "start"
    /\ daily_symptoms = <<>>
    /\ aggregated = EmptyDict
    /\ scored = EmptyDict
    /\ result = NoResult
    /\ response = NoResponse
    /\ raised = ""
    /\ calls = 0
    /\ model_loads = 0
    /\ llm_calls = 0
    /\ requests = <<>>
    /\ \/ /\ op = "predict_single"
          /\ symptoms \in FeatureVectors \cup OtherMappings
          /\ daily_logs = <<>>
          /\ env = NoEnv
          /\ request = NoRequest
       \/ /\ op = "generate_prediction"
          /\ symptoms \in CountVectors \cup OtherMappings
          /\ daily_logs = <<>>
          /\ env = NoEnv
          /\ request = NoRequest
       \/ /\ op \in {"predict_multi_day", "aggregate_daily_logs"}
          /\ symptoms = EmptyDict
          /\ daily_logs \in LogLists
          /\ env = NoEnv
          /\ request = NoRequest
       \/ /\ op = "generate_explanation"
          /\ symptoms = EmptyDict
          /\ daily_logs = <<>>
          /\ env \in LlmEnvironments
          /\ request \in ExplanationRequests
       \/ /\ op = "explain"
          /\ symptoms = EmptyDict
          /\ daily_logs = <<>>
          /\ env \in LlmEnvironments \cup {ServiceNotLoaded}
          /\ request \in ExplanationRequests
       \/ /\ op = "send_request"
          /\ symptoms = EmptyDict
          /\ daily_logs = <<>>
          /\ env \in LlmEnvironments
          /\ request \in {[prompt |-> p] : p \in Prompts}
       \/ /\ op = "list_symptoms"
          /\ symptoms = EmptyDict
          /\ daily_logs = <<>>
          /\ env = NoEnv
          /\ request = NoRequest
       \/ /\ op = "predict_from_input"
          /\ symptoms \in PrefixVectors \cup OtherMappings
          /\ daily_logs = <<>>
          /\ env \in Environments
          /\ request = NoRequest

\* POST /predict
PredictSingle ==
    /\ pc = "start"
    /\ op = "predict_single"
    /\ IF ~SymptomInputValid(symptoms)
       THEN /\ response' = RequestValidationError
            /\ raised' = "RequestValidationError"
            /\ UNCHANGED <<scored, result>>
       ELSE /\ scored' = SymptomInputDict(symptoms)
            /\ result' = generate_prediction(scored')
            /\ response' = PredictionResponse(result', Message(result', 0))
            /\ raised' = ""
    /\ pc' = "done"
    /\ UNCHANGED <<op, symptoms, daily_logs, daily_symptoms, aggregated, env,
                   calls, model_loads, request, llm_calls, requests>>

\* POST /predict-multi-day
PredictMultiDay ==
    /\ pc = "start"
    /\ op = "predict_multi_day"
    /\ IF \E i \in DOMAIN daily_logs : ~SymptomInputValid(daily_logs[i])
       THEN /\ response' = RequestValidationError
            /\ raised' = "RequestValidationError"
            /\ UNCHANGED <<daily_symptoms, aggregated, scored, result>>
       ELSE IF Len(daily_logs) = 0
       THEN \* the HTTPException raised in the try block is an Exception: the
            \* except clause of the same block catches it and raises its own
            LET e == HTTPException(400, <<"At least one daily log is required">>)
            IN  /\ response' = HTTPException(500, <<"Multi-day prediction failed: ">> \o e.detail)
                /\ raised' = "HTTPException"
                /\ UNCHANGED <<daily_symptoms, aggregated, scored, result>>
       ELSE /\ daily_symptoms' = [i \in DOMAIN daily_logs |-> SymptomInputDict(daily_logs[i])]
            /\ aggregated' = aggregate_daily_logs(daily_symptoms')
            /\ scored' = aggregated'
            /\ result' = generate_prediction(scored')
            /\ response' = PredictionResponse(result', Message(result', Len(daily_logs)))
            /\ raised' = ""
    /\ pc' = "done"
    /\ UNCHANGED <<op, symptoms, daily_logs, env,
                   calls, model_loads, request, llm_calls, requests>>

\* generate_prediction(symptoms), called as a function
GeneratePrediction ==
    /\ pc = "start"
    /\ op = "generate_prediction"
    /\ scored' = symptoms
    /\ result' = generate_prediction(scored')
    /\ raised' = ""
    /\ pc' = "done"
    /\ UNCHANGED <<op, symptoms, daily_logs, daily_symptoms, aggregated, response, env,
                   calls, model_loads, request, llm_calls, requests>>

\* aggregate_daily_logs(daily_logs), called as a function
AggregateDailyLogs ==
    /\ pc = "start"
    /\ op = "aggregate_daily_logs"
    /\ daily_symptoms' = daily_logs
    /\ aggregated' = aggregate_daily_logs(daily_symptoms')
    /\ raised' = ""
    /\ pc' = "done"
    /\ UNCHANGED <<op, symptoms, daily_logs, scored, result, response, env,
                   calls, model_loads, request, llm_calls, requests>>

\* GET /symptoms/list
ListSymptoms ==
    /\ pc = "start"
    /\ op = "list_symptoms"
    /\ response' = list_symptoms
    /\ raised' = ""
    /\ pc' = "done"
    /\ UNCHANGED <<op, symptoms, daily_logs, daily_symptoms, aggregated, scored,
                   result, env, calls, model_loads, request, llm_calls, requests>>

\* predict_from_input(symptoms) of predict_user_input.py, the first call of
\* the process: nothing was loaded when the module was imported
PredictFromInput ==
    /\ pc = "start"
    /\ op = "predict_from_input"
    /\ result' = predict_from_input(symptoms, env)
    /\ raised' = ""
    /\ calls' = calls + 1
    /\ model_loads' = model_loads + joblib_loads(env)
    /\ pc' = "done"
    /\ UNCHANGED <<op, symptoms, daily_logs, daily_symptoms, aggregated, scored,
                   response, env, request, llm_calls, requests>>

\* a later predict_from_input call of the same process, on a new input
PredictFromInputAgain ==
    /\ pc = "done"
    /\ op = "predict_from_input"
    /\ calls < MaxCalls
    /\ \E input_data_dict \in PrefixVectors \cup OtherMappings :
          /\ symptoms' = input_data_dict
          /\ result' = predict_from_input(input_data_dict, env)
    /\ raised' = ""
    /\ calls' = calls + 1
    /\ model_loads' = model_loads + joblib_loads(env)
    /\ UNCHANGED <<pc, op, daily_logs, daily_symptoms, aggregated, scored,
                   response, env, request, llm_calls, requests>>

\* EndometriosisExplanationService.generate_explanation, called as a method
GenerateExplanation ==
    /\ pc = "start"
    /\ op = "generate_explanation"
    /\ LET r == service_generate_explanation(request.user_query, request.prediction_result,
                                             request.use_fallback, env)
       IN  /\ result' = r.value
           /\ raised' = r.raised
           /\ llm_calls' = r.llm_calls
    /\ pc' = "done"
    /\ UNCHANGED <<op, symptoms, daily_logs, daily_symptoms, aggregated, scored,
                   response, env, calls, model_loads, request, requests>>

\* POST /explain
Explain ==
    /\ pc = "start"
    /\ op = "explain"
    /\ LET r == explain(request, env)
       IN  /\ llm_calls' = r.llm_calls
           /\ IF r.raised = ""
              THEN /\ result' = r.value
                   /\ response' = [status_code |-> 200, detail |-> <<>>,
                                   body |-> r.value, message |-> NoMessage]
                   /\ raised' = ""
              ELSE /\ response' = HTTPException(500, <<"Explanation generation failed: ", r.raised>>)
                   /\ raised' = "HTTPException"
                   /\ UNCHANGED result
    /\ pc' = "done"
    /\ UNCHANGED <<op, symptoms, daily_logs, daily_symptoms, aggregated, scored,
                   env, calls, model_loads, request, requests>>

\* TogetherLlamaClient.send_request(prompt), called as a method
SendRequest ==
    /\ pc = "start"
    /\ op = "send_request"
    /\ result' = send_request(request.prompt, env)
    /\ raised' = ""
    /\ llm_calls' = llm_calls + 1
    /\ pc' = "done"
    /\ UNCHANGED <<op, symptoms, daily_logs, daily_symptoms, aggregated, scored,
                   response, env, calls, model_loads, request, requests>>

Next ==
    \/ PredictSingle
    \/ PredictMultiDay
    \/ GeneratePrediction
    \/ AggregateDailyLogs
    \/ ListSymptoms
    \/ GenerateExplanation
    \/ Explain
    \/ SendRequest
    \/ PredictFromInput
    \/ PredictFromInputAgain

Spec == Init /\ [][Next]_vars

(***************************************************************************)
(* Parallel requests to /predict and /predict-multi-day.  Each request has *)
(* the local variables of its handler; a step of a request executes the    *)
(* next statements of its handler, and the steps of the requests           *)
(* interleave in any order.                                                *)
(***************************************************************************)
\* an assignment that writes a module-level variable, seen by all requests
SetGlobal(reqs, r, name, value) ==
    [q \in DOMAIN reqs |-> [reqs[q] EXCEPT ![name] = value]]

\* an assignment to a local variable of the handler of request r
SetLocal(reqs, r, name, value) ==
    [reqs EXCEPT ![r] = [reqs[r] EXCEPT ![name] = value]]

\* request r assigns a local variable and moves on
Step(r, name, value, next_pc) ==
    requests' = [SetLocal(requests, r, name, value) EXCEPT ![r].pc = next_pc]

\* request r moves on without an assignment
Goto(r, next_pc) == requests' = [requests EXCEPT ![r].pc = next_pc]

NewRequest(kind, body, logs) ==
    [ kind                |-> kind,
      symptoms            |-> body,
      daily_logs          |-> logs,
      pc                  |-> "start",
      daily_symptoms      |-> <<>>,
      aggregated_symptoms |-> EmptyDict,
      symptom_data        |-> EmptyDict,
      result              |-> NoResult,
      response            |-> NoResponse ]

ParallelBodies ==
    { MakeVector({}, One),
      MakeVector({"Cramping", "Infertility", "Ovarian_cysts"}, One),
      MakeVector({"Cramping"}, Two) }

ParallelLogLists ==
    { <<>>,
      << MakeVector({"Pain_Chronic_pain", "Migraines"}, One),
         MakeVector({"Cramping"}, One),
         MakeVector({}, One) >> }

ParallelRequests ==
    { NewRequest("predict_single", body, <<>>) : body \in ParallelBodies }
    \cup { NewRequest("predict_multi_day", EmptyDict, logs) : logs \in ParallelLogLists }

sequential_vars == <<pc, op, symptoms, daily_logs, daily_symptoms, aggregated,
                     scored, result, response, raised, env,
                     calls, model_loads, request, llm_calls>>

ParallelInit ==
    /\ pc = "parallel"
    /\ op = "parallel"
    /\ symptoms = EmptyDict
    /\ daily_logs = <<>>
    /\ daily_symptoms = <<>>
    /\ aggregated = EmptyDict
    /\ scored = EmptyDict
    /\ result = NoResult
    /\ response = NoResponse
    /\ raised = ""
    /\ env = NoEnv
    /\ calls = 0
    /\ model_loads = 0
    /\ request = NoRequest
    /\ llm_calls = 0
    /\ requests \in [1..MaxRequests -> ParallelRequests]

\* the request body is validated against SymptomInput / MultiDayInput, and
\* the empty list of logs is refused
Receive(r) ==
    /\ requests[r].pc = "start"
    /\ IF requests[r].kind = "predict_single"
       THEN IF ~SymptomInputValid(requests[r].symptoms)
            THEN Step(r, "response", RequestValidationError, "done")
            ELSE Goto(r, "dict")
       ELSE IF \E i \in DOMAIN requests[r].daily_logs :
                  ~SymptomInputValid(requests[r].daily_logs[i])
            THEN Step(r, "response", RequestValidationError, "done")
            ELSE IF Len(requests[r].daily_logs) = 0
            THEN Step(r, "response",
                      HTTPException(500, <<"Multi-day prediction failed: ",
                                           "At least one daily log is required">>),
                      "done")
            ELSE Goto(r, "dict")
    /\ UNCHANGED sequential_vars

\* symptom_data = symptoms.dict(), daily_symptoms = [log.dict() for log in ...]
Convert(r) ==
    /\ requests[r].pc = "dict"
    /\ IF requests[r].kind = "predict_single"
       THEN Step(r, "symptom_data", SymptomInputDict(requests[r].symptoms), "predict")
       ELSE Step(r, "daily_symptoms",
                 [i \in DOMAIN requests[r].daily_logs |->
                     SymptomInputDict(requests[r].daily_logs[i])],
                 "aggregate")
    /\ UNCHANGED sequential_vars

\* aggregated_symptoms = aggregate_daily_logs(daily_symptoms)
Aggregate(r) ==
    /\ requests[r].pc = "aggregate"
    /\ Step(r, "aggregated_symptoms", aggregate_daily_logs(requests[r].daily_symptoms),
            "predict")
    /\ UNCHANGED sequential_vars

\* result = generate_prediction(...)
Predict(r) ==
    /\ requests[r].pc = "predict"
    /\ Step(r, "result",
            generate_prediction(IF requests[r].kind = "predict_single"
                                THEN requests[r].symptom_data
                                ELSE requests[r].aggregated_symptoms),
            "respond")
    /\ UNCHANGED sequential_vars

\* return PredictionResponse(...)
Respond(r) ==
    /\ requests[r].pc = "respond"
    /\ Step(r, "response",
            PredictionResponse(requests[r].result,
                               Message(requests[r].result, Len(requests[r].daily_logs))),
            "done")
    /\ UNCHANGED sequential_vars

ParallelNext ==
    \/ \E r \in DOMAIN requests : Receive(r)
    \/ \E r \in DOMAIN requests : Convert(r)
    \/ \E r \in DOMAIN requests : Aggregate(r)
    \/ \E r \in DOMAIN requests : Predict(r)
    \/ \E r \in DOMAIN requests : Respond(r)

ParallelSpec == ParallelInit /\ [][ParallelNext]_vars

(***************************************************************************)
(* Properties.                                                             *)
(***************************************************************************)
\* a complete Feature Vector: all 27 keys, each value in [0, 1]
IsFeatureVector(d) ==
    /\ DOMAIN d = SymptomInputFields
    /\ \A k \in DOMAIN d : Ge0(d[k]) /\ Le1(d[k])

\* generate_prediction has been applied to scored and returned result
Scored ==
    /\ pc = "done"
    /\ \/ op = "generate_prediction"
       \/ op \in {"predict_single", "predict_multi_day"} /\ response.status_code = 200

\* aggregate_daily_logs has been applied to daily_symptoms and returned aggregated
Aggregated ==
    /\ pc = "done"
    /\ \/ op = "aggregate_daily_logs"
       \/ op = "predict_multi_day" /\ response.status_code = 200

\* C1: for every Feature Vector the two returned probabilities, each rounded
\* to 4 decimal places, add up to exactly 1.
C1_ProbabilitiesSumToOne ==
    (Scored /\ IsFeatureVector(scored)) =>
        /\ result.probabilities.no_endometriosis % 100 = 0
        /\ result.probabilities.endometriosis % 100 = 0
        /\ result.probabilities.no_endometriosis + result.probabilities.endometriosis = Unit

C1_Witness ==
    /\ Scored
    /\ IsFeatureVector(scored)
    /\ result.probabilities.endometriosis = 540000
    /\ result.probabilities.no_endometriosis = 460000

\* C2: for every Feature Vector the returned confidence is the returned
\* probability of the predicted class.
C2_ConfidenceIsPredictedClass ==
    (Scored /\ IsFeatureVector(scored)) =>
        /\ result.prediction \in {0, 1}
        /\ result.prediction = 1 => result.confidence = result.probabilities.endometriosis
        /\ result.prediction = 0 => result.confidence = result.probabilities.no_endometriosis

C2_Witness ==
    /\ Scored
    /\ IsFeatureVector(scored)
    /\ result.prediction = 0
    /\ result.confidence = result.probabilities.no_endometriosis
    /\ result.confidence # result.probabilities.endometriosis

\* C3: for every Feature Vector the returned risk_level is the one the
\* threshold table (Low below 0.3, Moderate below 0.7, High from 0.7) gives
\* to the returned probability of endometriosis.
C3_RiskLevelFollowsThresholds ==
    (Scored /\ IsFeatureVector(scored)) =>
        result.risk_level = get_risk_level(result.probabilities.endometriosis)

C3_Witness ==
    /\ Scored
    /\ IsFeatureVector(scored)
    /\ result.risk_level = "Moderate"
    /\ result.probabilities.endometriosis = 650000

\* the canonical policy of the specification, from the three presence counts
CanonHigh(v)     == Cardinality({k \in Range(high_risk_symptoms) : v[k][1] > 0})
CanonModerate(v) == Cardinality({k \in Range(moderate_risk_symptoms) : v[k][1] > 0})
CanonCount(v)    == Cardinality({k \in SymptomInputFields : v[k][1] > 0})
\* twice the weighted score
CanonScore2(v)   == 4 * CanonHigh(v) + 2 * CanonModerate(v) + CanonCount(v)
CanonTier(v) ==
    IF CanonScore2(v) >= 16 \/ CanonHigh(v) >= 3 THEN "High"
    ELSE IF CanonScore2(v) >= 8 \/ CanonHigh(v) >= 1 THEN "Moderate"
    ELSE "Low"
CanonP(v) ==
    CASE CanonTier(v) = "High"     -> Min(850000, 600000 + 25000 * CanonScore2(v))
      [] CanonTier(v) = "Moderate" -> Min(650000, 300000 + 40000 * CanonScore2(v))
      [] OTHER                     -> Min(350000, 100000 + 25000 * CanonScore2(v))
CanonLabel(v) ==
    CASE CanonTier(v) = "High"     -> 1
      [] CanonTier(v) = "Moderate" -> IF CanonP(v) >= 500000 THEN 1 ELSE 0
      [] OTHER                     -> 0

\* C4: for every Feature Vector generate_prediction returns the tier, the
\* probability and the label of the canonical policy.
C4_CanonicalPolicy ==
    (Scored /\ IsFeatureVector(scored)) =>
        /\ result.risk_level = CanonTier(scored)
        /\ result.probabilities.endometriosis = CanonP(scored)
        /\ result.prediction = CanonLabel(scored)

C4_Witness ==
    /\ Scored
    /\ IsFeatureVector(scored)
    /\ CanonHigh(scored) = 3
    /\ CanonScore2(scored) = 15
    /\ result.risk_level = "High"
    /\ result.probabilities.endometriosis = 850000
    /\ result.prediction = 1

\* C5: aggregate_daily_logs called with no logs fails with EmptyLogSet and
\* does not return an empty mapping.
C5_EmptyLogSetRaised ==
    (pc = "done" /\ op = "aggregate_daily_logs" /\ Len(daily_logs) = 0) =>
        /\ raised = "EmptyLogSet"
        /\ ~(raised = "" /\ aggregated = EmptyDict)

\* C6: the 400 that predict_multi_day raises for an empty daily_logs list
\* reaches the caller as it was raised, and no prediction is produced.
C6_EmptyListIs400 ==
    (pc = "done" /\ op = "predict_multi_day" /\ Len(daily_logs) = 0) =>
        /\ response.status_code = 400
        /\ response.detail = <<"At least one daily log is required">>
        /\ result = NoResult

\* every log handed to aggregate_daily_logs is a complete Feature Vector
AllFeatureVectors(logs) == \A i \in DOMAIN logs : IsFeatureVector(logs[i])

\* C7: for every non-empty sequence of daily logs and every key, the
\* aggregated value is (number of logs whose value is > 0) / (number of logs).
C7_PresenceFraction ==
    (Aggregated /\ Len(daily_symptoms) >= 1 /\ AllFeatureVectors(daily_symptoms)) =>
        \A k \in SymptomInputFields :
            /\ k \in DOMAIN aggregated
            /\ aggregated[k][1] * Len(daily_symptoms) =
                 aggregated[k][2]
                 * Cardinality({i \in DOMAIN daily_symptoms : daily_symptoms[i][k][1] > 0})

C7_Witness ==
    /\ Aggregated
    /\ Len(daily_symptoms) = 2
    /\ AllFeatureVectors(daily_symptoms)
    /\ daily_symptoms[1]["Cramping"] = Half
    /\ daily_symptoms[2]["Cramping"] = Zero
    /\ aggregated["Cramping"] = Half

\* C8: aggregating any permutation of a non-empty sequence of daily logs
\* gives the same aggregated vector.
C8_OrderIndependent ==
    (Aggregated /\ Len(daily_symptoms) >= 1) =>
        \A f \in Permutations(DOMAIN daily_symptoms) :
            aggregate_daily_logs([i \in DOMAIN daily_symptoms |-> daily_symptoms[f[i]]])
              = aggregated

C8_Witness ==
    /\ Aggregated
    /\ Len(daily_symptoms) = 3
    /\ \A i \in DOMAIN daily_symptoms : DOMAIN daily_symptoms[i] = SymptomInputFields
    /\ daily_symptoms[1]["Cramping"] = Half
    /\ daily_symptoms[2]["Cramping"] = Zero
    /\ daily_symptoms[3]["Cramping"] = Half
    /\ daily_symptoms[1]["Extreme_Bloating"] = Zero
    /\ daily_symptoms[3]["Extreme_Bloating"] = One
    /\ aggregated["Cramping"] = <<2, 3>>

\* C9: aggregating N >= 1 copies of one daily log gives 1 for each key the
\* log has > 0 and 0 for every other key.
C9_CopiesKeepPresence ==
    ( /\ Aggregated
      /\ Len(daily_symptoms) >= 1
      /\ IsFeatureVector(daily_symptoms[1])
      /\ \A i \in DOMAIN daily_symptoms : daily_symptoms[i] = daily_symptoms[1] ) =>
        \A k \in SymptomInputFields :
            aggregated[k] = IF daily_symptoms[1][k][1] > 0 THEN One ELSE Zero

C9_Witness ==
    /\ Aggregated
    /\ Len(daily_symptoms) = 3
    /\ \A i \in DOMAIN daily_symptoms : DOMAIN daily_symptoms[i] = SymptomInputFields
    /\ \A i \in DOMAIN daily_symptoms : daily_symptoms[i] = daily_symptoms[1]
    /\ daily_symptoms[1]["Cramping"] = Half
    /\ daily_symptoms[1]["Extreme_Bloating"] = Zero
    /\ aggregated["Cramping"] = One
    /\ aggregated["Extreme_Bloating"] = Zero

\* C10: the aggregate of a non-empty sequence of daily logs is a complete
\* Feature Vector: a value for each of the 27 keys, each in [0, 1].
C10_AggregateIsFeatureVector ==
    (Aggregated /\ Len(daily_symptoms) >= 1) =>
        /\ IsFeatureVector(aggregated)
        /\ Cardinality(DOMAIN aggregated) = 27

C10_Witness ==
    /\ Aggregated
    /\ Len(daily_symptoms) = 3
    /\ aggregated["Cramping"] = <<1, 3>>
    /\ aggregated["Pain_Chronic_pain"] = One
    /\ aggregated["Loss_of_appetite"] = Zero

\* the single vector in which a key is 1 iff some log has it > 0
AnyDayVector(logs) ==
    [k \in SymptomInputFields |->
        IF \E i \in DOMAIN logs : logs[i][k][1] > 0 THEN One ELSE Zero]

\* C11: a symptom present on only some days counts as fully present when the
\* aggregate is scored: the multi-day outcome is the outcome of the vector
\* in which a key is 1 iff it is > 0 in at least one log.
C11_PartlyPresentCountsAsPresent ==
    (pc = "done" /\ op = "predict_multi_day" /\ response.status_code = 200) =>
        /\ scored = aggregated
        /\ result = generate_prediction(AnyDayVector(daily_symptoms))
        /\ response.body = result

C11_Witness ==
    /\ pc = "done" /\ op = "predict_multi_day" /\ response.status_code = 200
    /\ Len(daily_symptoms) = 2
    /\ daily_symptoms[1]["Pain_Chronic_pain"] = One
    /\ daily_symptoms[2]["Pain_Chronic_pain"] = Zero
    /\ daily_symptoms[1]["Cramping"] = Zero
    /\ daily_symptoms[2]["Cramping"] = Zero
    /\ daily_symptoms[1]["Extreme_Bloating"] = Zero
    /\ daily_symptoms[2]["Extreme_Bloating"] = Zero
    /\ aggregated["Pain_Chronic_pain"] = Half
    /\ symptom_count(scored) = 1
    /\ high_risk_count(scored) = 1
    /\ result.risk_level = "Moderate"

AllOnes  == [k \in SymptomInputFields |-> One]
AllZeros == [k \in SymptomInputFields |-> Zero]

\* C12: for the vector with all 27 keys equal to 1 the counts are 6, 6 and
\* 27, weighted_score is 31.5 and the outcome is High, 1, confidence 0.85,
\* probabilities (0.15, 0.85).
C12_AllOnes ==
    (Scored /\ scored = AllOnes) =>
        /\ high_risk_count(scored) = 6
        /\ moderate_risk_count(scored) = 6
        /\ symptom_count(scored) = 27
        /\ weighted_score(scored) = 63
        /\ result.risk_level = "High"
        /\ result.prediction = 1
        /\ result.confidence = 850000
        /\ result.probabilities = [no_endometriosis |-> 150000, endometriosis |-> 850000]

C12_Witness ==
    /\ Scored
    /\ scored = AllOnes
    /\ result.prediction_label = "Endometriosis"

\* C13: for the vector with all 27 keys equal to 0 weighted_score is 0 and
\* the outcome is Low, 0, probabilities (0.90, 0.10).
C13_AllZeros ==
    (Scored /\ scored = AllZeros) =>
        /\ weighted_score(scored) = 0
        /\ result.risk_level = "Low"
        /\ result.prediction = 0
        /\ result.probabilities = [no_endometriosis |-> 900000, endometriosis |-> 100000]

C13_Witness ==
    /\ Scored
    /\ scored = AllZeros
    /\ result.prediction_label = "No Endometriosis"

\* exactly three high-risk keys are > 0 and the 24 other keys are 0
ThreeHighOnly(v) ==
    /\ IsFeatureVector(v)
    /\ {k \in SymptomInputFields : v[k][1] > 0} \subseteq Range(high_risk_symptoms)
    /\ Cardinality({k \in SymptomInputFields : v[k][1] > 0}) = 3

\* C14: a vector with exactly 3 high-risk keys > 0 and nothing else is High
\* with prediction 1, through high_risk_count >= 3 while weighted_score < 8.
C14_ThreeHighIsHigh ==
    (Scored /\ ThreeHighOnly(scored)) =>
        /\ result.risk_level = "High"
        /\ result.prediction = 1
        /\ high_risk_count(scored) >= 3
        /\ weighted_score(scored) < 8 * 2

C14_Witness ==
    /\ Scored
    /\ ThreeHighOnly(scored)
    /\ scored["Infertility"] = Half
    /\ scored["Ovarian_cysts"] = Half
    /\ scored["Pain_after_Intercourse"] = Half
    /\ result.risk_level = "High"

\* three high-risk keys are 1 and the 24 other keys are 0
ThreeHighOnes(v) ==
    /\ ThreeHighOnly(v)
    /\ \A k \in SymptomInputFields : v[k] \in {Zero, One}

\* C15 as stated: with exactly 3 high-risk keys set to 1 and all other keys
\* 0, weighted_score is 6.
C15_ScoreIsSix ==
    (Scored /\ ThreeHighOnes(scored)) => weighted_score(scored) = 6 * 2

\* C15 as amended: with exactly 3 high-risk keys set to 1 and all other keys
\* 0, weighted_score is 7.5 (2 * 3 for the subset plus 0.5 * 3 for the count).
C15_ScoreIsSevenAndHalf ==
    (Scored /\ ThreeHighOnes(scored)) => weighted_score(scored) = 15

C15_Witness ==
    /\ Scored
    /\ ThreeHighOnes(scored)
    /\ scored["Cramping"] = One
    /\ scored["Pain_Chronic_pain"] = One
    /\ scored["Extreme_Bloating"] = One
    /\ symptom_count(scored) = 3

\* the mapping m without its entries under keys that are no symptom key
KnownOnly(m) == [k \in DOMAIN m \cap SymptomInputFields |-> m[k]]

\* C16: entries under keys outside the 27 symptom keys do not change the
\* outcome of generate_prediction or of generate_dummy_prediction, and no
\* error is raised.
C16_UnknownKeysIgnored ==
    /\ (pc = "done" /\ op = "generate_prediction") =>
          /\ raised = ""
          /\ result = generate_prediction(KnownOnly(symptoms))
    /\ (pc = "done" /\ op = "predict_from_input" /\ env.model_file = "missing") =>
          /\ raised = ""
          /\ result = generate_dummy_prediction(KnownOnly(symptoms))

\* the mapping m with each symptom key it omits present with value 0
ZeroFilled(m) ==
    [k \in DOMAIN m \cup SymptomInputFields |-> IF k \in DOMAIN m THEN m[k] ELSE Zero]

\* C17: missing keys default to 0: scoring and aggregation of a mapping that
\* omits symptom keys give the result of the mapping with those keys at 0,
\* and the vector a route builds holds 0 for every key the body omits.
C17_MissingKeysAreZero ==
    /\ (pc = "done" /\ op = "generate_prediction") =>
          result = generate_prediction(ZeroFilled(symptoms))
    /\ (pc = "done" /\ op = "aggregate_daily_logs") =>
          aggregated =
            aggregate_daily_logs([i \in DOMAIN daily_logs |-> ZeroFilled(daily_logs[i])])
    /\ (pc = "done" /\ op = "predict_single" /\ response.status_code = 200) =>
          /\ \A k \in SymptomInputFields :
                scored[k] = IF k \in DOMAIN symptoms THEN symptoms[k] ELSE Zero
          /\ result = generate_prediction(KnownOnly(ZeroFilled(symptoms)))
    /\ (pc = "done" /\ op = "predict_multi_day" /\ response.status_code = 200) =>
          /\ \A i \in DOMAIN daily_logs : \A k \in SymptomInputFields :
                daily_symptoms[i][k] =
                    IF k \in DOMAIN daily_logs[i] THEN daily_logs[i][k] ELSE Zero
          /\ aggregated =
               aggregate_daily_logs(
                   [i \in DOMAIN daily_logs |-> KnownOnly(ZeroFilled(daily_logs[i]))])

C17_Witness ==
    /\ pc = "done"
    /\ op = "aggregate_daily_logs"
    /\ Len(daily_logs) = 2
    /\ DOMAIN daily_logs[1] = {"Pain_Chronic_pain", "Migraines"}
    /\ daily_logs[2] = AllZeros
    /\ aggregated["Migraines"] = Half
    /\ aggregated["Cramping"] = Zero

\* some symptom value of the mapping lies outside [0, 1]
HasOutOfRange(m) ==
    \E k \in DOMAIN m \cap SymptomInputFields : m[k][1] < 0 \/ m[k][1] > m[k][2]

ValidVector(m) ==
    /\ DOMAIN m = SymptomInputFields
    /\ \A k \in DOMAIN m : m[k][1] >= 0 /\ m[k][1] <= m[k][2]

IsOutcome(r) ==
    /\ r.prediction \in {0, 1}
    /\ r.risk_level \in {"Low", "Moderate", "High"}

\* C19: the scorer is total: a valid Feature Vector, and a multi-day request
\* of at least one valid daily log, always ends with a Prediction Outcome
\* (prediction 0 or 1, risk_level Low, Moderate or High) and never an error.
C19_ScorerIsTotal ==
    /\ (pc = "done" /\ op = "generate_prediction" /\ ValidVector(symptoms)) =>
          raised = "" /\ IsOutcome(result)
    /\ (pc = "done" /\ op = "predict_single" /\ ValidVector(symptoms)) =>
          /\ raised = ""
          /\ response.status_code = 200
          /\ IsOutcome(response.body)
    /\ (pc = "done" /\ op = "predict_multi_day" /\ Len(daily_logs) >= 1
          /\ \A i \in DOMAIN daily_logs : ValidVector(daily_logs[i])) =>
          /\ raised = ""
          /\ response.status_code = 200
          /\ IsOutcome(response.body)

C19_Witness ==
    /\ pc = "done"
    /\ op = "predict_multi_day"
    /\ Len(daily_logs) = 3
    /\ \A i \in DOMAIN daily_logs : ValidVector(daily_logs[i])
    /\ daily_logs[1]["Cramping"] = Half
    /\ daily_logs[2]["Pain_Chronic_pain"] = One
    /\ daily_logs[3]["Extreme_Bloating"] = One
    /\ response.status_code = 200
    /\ response.body.risk_level = "High"
    /\ response.body.prediction = 1

\* the model could not be loaded, or inference failed
ModelFailed(e) == e.model_file \in {"missing", "corrupt"} \/ e.inference_raises

\* C20: when predict_from_input fails to load the model or fails during
\* inference, the caller gets a ScoringUnavailable error or an outcome marked
\* as degraded, never an ordinary outcome of generate_dummy_prediction.
C20_FailureIsSignalled ==
    (pc = "done" /\ op = "predict_from_input" /\ ModelFailed(env)) =>
        \/ raised = "ScoringUnavailable"
        \/ "degraded" \in DOMAIN result
        \/ "error" \in DOMAIN result

\* C21: across the predict_from_input calls of one process the model file is
\* loaded at most once, and no scoring call loads it again.
C21_LoadedAtMostOnce ==
    op = "predict_from_input" => model_loads <= 1

\* C23: every outcome returned by predict_from_input, from the model or from
\* generate_dummy_prediction, has risk_level Low iff its returned
\* probabilities.endometriosis < 0.3, Moderate iff 0.3 <= it < 0.7 and High
\* iff it >= 0.7.
C23_ThresholdTable ==
    (op = "predict_from_input" /\ pc = "done") =>
        LET p == result.probabilities.endometriosis
        IN  /\ result.risk_level = "Low"      <=> p < 300000
            /\ result.risk_level = "Moderate" <=> (p >= 300000 /\ p < 700000)
            /\ result.risk_level = "High"     <=> p >= 700000

\* C24: the symptom keys are one closed set of 27 keys: the fields of
\* SymptomInput, the symptom_keys of both aggregate_daily_logs copies and the
\* keys answered by /symptoms/list (total_count 27) are the same set, and the
\* high-risk and moderate-risk lists are disjoint 6-key subsets of it.
C24_OneKeySet ==
    /\ Cardinality(SymptomInputFields) = 27
    /\ Len(symptom_input_fields) = 27
    /\ Range(symptom_keys) = SymptomInputFields
    /\ Len(symptom_keys) = 27
    /\ Range(symptom_keys_user_input) = SymptomInputFields
    /\ Len(symptom_keys_user_input) = 27
    /\ Range(high_risk_symptoms) \subseteq SymptomInputFields
    /\ Range(moderate_risk_symptoms) \subseteq SymptomInputFields
    /\ Cardinality(Range(high_risk_symptoms)) = 6
    /\ Cardinality(Range(moderate_risk_symptoms)) = 6
    /\ Range(high_risk_symptoms) \cap Range(moderate_risk_symptoms) = {}
    /\ (pc = "done" /\ op = "list_symptoms") =>
          /\ response.status_code = 200
          /\ Range(response.body.symptoms) = SymptomInputFields
          /\ response.body.total_count = 27
    /\ (pc = "done" /\ op = "aggregate_daily_logs" /\ Len(daily_logs) >= 1) =>
          DOMAIN aggregated = SymptomInputFields
    /\ (pc = "done" /\ op = "predict_single" /\ response.status_code = 200) =>
          DOMAIN scored = SymptomInputFields

C24_Witness ==
    /\ pc = "done"
    /\ op = "list_symptoms"
    /\ Len(response.body.symptoms) = 27
    /\ response.body.symptoms[27] = "Loss_of_appetite"
    /\ response.body.total_count = Cardinality(SymptomInputFields)

\* C25: for every Feature Vector generate_prediction returns prediction 0
\* exactly when risk_level is Low; every Moderate and every High outcome has
\* prediction 1, so the "low likelihood" message of /predict and of
\* /predict-multi-day is only sent with risk_level Low.
C25_PredictionZeroIffLow ==
    /\ (Scored /\ IsFeatureVector(scored)) =>
          /\ result.prediction = 0 <=> result.risk_level = "Low"
          /\ result.risk_level \in {"Moderate", "High"} => result.prediction = 1
    /\ (pc = "done" /\ op \in {"predict_single", "predict_multi_day"}
          /\ response.status_code = 200) =>
          /\ response.message.text = "low likelihood" => response.body.risk_level = "Low"
          /\ response.body.risk_level = "Low" => response.message.text = "low likelihood"

\* one high-risk symptom alone: Moderate with probability exactly 0.5
C25_Witness ==
    /\ pc = "done"
    /\ op = "predict_single"
    /\ response.status_code = 200
    /\ high_risk_count(scored) = 1
    /\ symptom_count(scored) = 1
    /\ response.body.risk_level = "Moderate"
    /\ response.body.probabilities.endometriosis = 500000
    /\ response.body.prediction = 1
    /\ response.message.text = "risk"

\* the order Low < Moderate < High
Tier(level) == CASE level = "Low" -> 0 [] level = "Moderate" -> 1 [] level = "High" -> 2

\* C26: scoring is monotone in the symptoms present: changing one key of a
\* Feature Vector from 0 to a value > 0 never lowers the probability of
\* endometriosis, the risk tier or the prediction.
C26_Monotone ==
    (Scored /\ op = "generate_prediction" /\ IsFeatureVector(scored)) =>
        \A k \in SymptomInputFields : \A v \in {Half, One} :
            scored[k] = Zero =>
                LET more == generate_prediction([scored EXCEPT ![k] = v])
                IN  /\ more.probabilities.endometriosis >= result.probabilities.endometriosis
                    /\ Tier(more.risk_level) >= Tier(result.risk_level)
                    /\ more.prediction >= result.prediction

\* two high-risk symptoms, Moderate: a third one makes the outcome High
C26_Witness ==
    /\ pc = "done"
    /\ op = "generate_prediction"
    /\ IsFeatureVector(scored)
    /\ high_risk_count(scored) = 2
    /\ symptom_count(scored) = 2
    /\ scored["Pain_after_Intercourse"] = Zero
    /\ result.risk_level = "Moderate"
    /\ generate_prediction([scored EXCEPT !["Pain_after_Intercourse"] = One]).risk_level = "High"
    /\ generate_prediction([scored EXCEPT !["Pain_after_Intercourse"] = One]).probabilities.endometriosis
         > result.probabilities.endometriosis

\* the prediction_result gets generate_explanation past its first lines:
\* risk_level is a str or missing, probabilities a dict or missing, and
\* probabilities.endometriosis a number or missing
Readable(prediction_result) ==
    /\ "risk_level" \in DOMAIN prediction_result =>
          prediction_result["risk_level"].type = "str"
    /\ "probabilities" \in DOMAIN prediction_result =>
          /\ prediction_result["probabilities"].type = "dict"
          /\ "endometriosis" \in DOMAIN prediction_result["probabilities"].d =>
                prediction_result["probabilities"].d["endometriosis"].type \in {"int", "float"}

\* the API answered a text of at least 50 characters after strip()
LongAnswer(e) == e.api = "content" /\ e.content.length >= 50

\* C27: in generate_explanation the LLM client is never invoked when
\* use_fallback is true, and in each case (forced fallback, AI success, AI
\* answer shorter than 50 characters, AI exception) the returned result has
\* an explanation and the recommendations computed by _get_recommendations.
C27_ForcedFallbackSkipsLlm ==
    (pc = "done" /\ op = "generate_explanation") =>
        /\ request.use_fallback => llm_calls = 0
        /\ Readable(request.prediction_result) =>
              /\ raised = ""
              /\ "explanation" \in DOMAIN result
              /\ result.recommendations =
                    service_get_recommendations(result.risk_level,
                        result.prediction_summary.probability).recommendations
              /\ Len(result.recommendations) >= 3
              /\ request.use_fallback => result.explanation.text = "service"
              /\ (~request.use_fallback /\ LongAnswer(env)
                    /\ Get(request.prediction_result, "confidence", PyInt(0)).type
                         \in {"int", "float"}) =>
                    result.explanation = [env.content EXCEPT !.pad = 0]
              /\ (~request.use_fallback /\ env.api = "content"
                    /\ env.content.length \in 1..49) =>
                    result.explanation.text = "service"
              /\ (~request.use_fallback
                    /\ Get(request.prediction_result, "confidence", PyInt(0)).type
                         \notin {"int", "float"}) =>
                    result.explanation.text = "service"

\* the fallback is forced although the API would have answered at length
C27_Witness ==
    /\ pc = "done"
    /\ op = "generate_explanation"
    /\ request.use_fallback
    /\ LongAnswer(env)
    /\ request.prediction_result \in {AsJson(r) : r \in ScorerOutcomes}
    /\ raised = ""
    /\ llm_calls = 0
    /\ result.explanation.text = "service"
    /\ result.explanation.branch = "moderate"
    /\ Len(result.recommendations) = 3

\* C28: generate_explanation returns a fallback response on error: for every
\* prediction_result, also one whose risk_level, probabilities or confidence
\* is missing, null or of the wrong type, it returns a dict with explanation,
\* recommendations and prediction_summary and never raises.
C28_NeverRaises ==
    (pc = "done" /\ op = "generate_explanation") =>
        /\ raised = ""
        /\ {"explanation", "recommendations", "prediction_summary"} \subseteq DOMAIN result

\* the API failed, or answered nothing but whitespace
NoAnswer(e) == e.api \in {"raises", "no_choices", "content_none"}
                 \/ (e.api = "content" /\ e.content.length = 0)

\* C29: send_request never raises and always returns a non-empty string: on
\* an API exception, no choices, or empty or whitespace-only content it
\* returns the text of _get_fallback_response; the service then takes that
\* canned text for an AI answer, exactly as if the API had written it.
C29_ClientAlwaysAnswers ==
    /\ (pc = "done" /\ op = "send_request") =>
          /\ raised = ""
          /\ result.length > 0
          /\ result.pad = 0
          /\ NoAnswer(env) => result = get_fallback_response(request.prompt)
          /\ ~NoAnswer(env) => result = [env.content EXCEPT !.pad = 0]
    /\ (pc = "done" /\ op = "generate_explanation" /\ raised = ""
          /\ ~request.use_fallback /\ NoAnswer(env)
          /\ Get(request.prediction_result, "confidence", PyInt(0)).type \in {"int", "float"}) =>
          LET canned == get_fallback_response(explanation_prompt_keywords
                                              \cup request.user_query)
          IN  /\ result.explanation = canned
              /\ "error" \notin DOMAIN result
              /\ result = service_generate_explanation(
                              request.user_query, request.prediction_result, FALSE,
                              [env EXCEPT !.api = "content", !.content = canned]).value

C29_Witness ==
    /\ pc = "done"
    /\ op = "send_request"
    /\ env.api = "content"
    /\ env.content.length = 0
    /\ env.content.pad = 3
    /\ request.prompt = {"accuracy"}
    /\ result.length = 704

\* the branch a list of recommendations was taken from
RecommendationsBranch(recommendations) ==
    LET last == recommendations[Len(recommendations)]
    IN  CASE last.priority = "high"   -> "high"
          [] last.priority = "medium" -> "moderate"
          [] OTHER                    -> "low"

\* C30: for every outcome generate_prediction or generate_dummy_prediction
\* can return, _get_fallback_explanation and _get_recommendations of the
\* service and get_fallback_explanation and get_fallback_recommendations of
\* rag_api select the branch of the outcome's risk_level, whether it is
\* chosen by the risk_level string or by the probability comparisons.
C30_ExplanationMatchesTier ==
    (op \in {"explain", "generate_explanation"}
       /\ request.prediction_result \in {AsJson(r) : r \in ScorerOutcomes \cup DummyOutcomes}) =>
        LET prediction_result == request.prediction_result
            level == Lower(prediction_result.risk_level.s)
            p     == prediction_result.probabilities.d.endometriosis
        IN  /\ level \in {"low", "moderate", "high"}
            /\ service_get_fallback_explanation(level, request.user_query, p).text.branch = level
            /\ RecommendationsBranch(service_get_recommendations(level, p).recommendations) = level
            /\ get_fallback_explanation(prediction_result).text.branch = level
            /\ RecommendationsBranch(get_fallback_recommendations(prediction_result).recommendations) = level
            /\ explanation_branch("unknown", p) = level
            /\ recommendations_branch("unknown", p) = level
            /\ (pc = "done" /\ op = "explain" /\ ~env.service_loaded) =>
                  /\ response.status_code = 200
                  /\ response.body.explanation.branch = level
                  /\ RecommendationsBranch(response.body.recommendations) = level
            /\ (pc = "done" /\ op = "generate_explanation" /\ request.use_fallback) =>
                  /\ result.explanation.branch = level
                  /\ RecommendationsBranch(result.recommendations) = level

\* /explain without the service, on a Moderate outcome of generate_prediction
C30_Witness ==
    /\ pc = "done"
    /\ op = "explain"
    /\ ~env.service_loaded
    /\ request.prediction_result \in {AsJson(r) : r \in ScorerOutcomes}
    /\ request.prediction_result.risk_level.s = "Moderate"
    /\ request.prediction_result.probabilities.d.endometriosis.n = 650000
    /\ response.status_code = 200
    /\ response.body.explanation.branch = "moderate"
    /\ response.body.explanation.probability_percent = 65
    /\ RecommendationsBranch(response.body.recommendations) = "moderate"

\* the response request q gets when it is the only request
Alone(q) ==
    IF q.kind = "predict_single"
    THEN IF \E k \in DOMAIN q.symptoms \cap SymptomInputFields :
                q.symptoms[k][1] < 0 \/ q.symptoms[k][1] > q.symptoms[k][2]
         THEN RequestValidationError
         ELSE LET alone == generate_prediction(SymptomInputDict(q.symptoms))
              IN  PredictionResponse(alone, Message(alone, 0))
    ELSE IF Len(q.daily_logs) = 0
         THEN HTTPException(500, <<"Multi-day prediction failed: ",
                                   "At least one daily log is required">>)
         ELSE LET alone == generate_prediction(aggregate_daily_logs(
                               [i \in DOMAIN q.daily_logs |-> SymptomInputDict(q.daily_logs[i])]))
              IN  PredictionResponse(alone, Message(alone, Len(q.daily_logs)))

\* C22: parallel requests share no mutable state: under every interleaving
\* of their steps, what a request has aggregated and scored, and the
\* response it gets, are those of the same request run alone.
C22_ParallelRequestsIsolated ==
    \A r \in DOMAIN requests :
        /\ requests[r].pc = "done" => requests[r].response = Alone(requests[r])
        /\ requests[r].pc = "respond" =>
              PredictionResponse(requests[r].result,
                                 Message(requests[r].result, Len(requests[r].daily_logs)))
                = Alone(requests[r])
        /\ (requests[r].pc = "predict" /\ requests[r].kind = "predict_multi_day") =>
              requests[r].aggregated_symptoms
                = aggregate_daily_logs([i \in DOMAIN requests[r].daily_logs |->
                                           SymptomInputDict(requests[r].daily_logs[i])])

\* one request has aggregated three days and is about to score them while
\* another has already been answered High
C22_Witness ==
    /\ op = "parallel"
    /\ requests[1].kind = "predict_multi_day"
    /\ requests[1].pc = "predict"
    /\ Len(requests[1].daily_logs) = 3
    /\ requests[1].aggregated_symptoms["Cramping"] = <<1, 3>>
    /\ requests[2].kind = "predict_single"
    /\ requests[2].pc = "done"
    /\ requests[2].response.status_code = 200
    /\ requests[2].response.body.risk_level = "High"

====
